---- MODULE Spec2Model ----
(***************************************************************************)
(* Model of comparison_utils.py: calculate_improvement,                    *)
(* create_comparison_table and create_styled_excel.                        *)
(*                                                                         *)
(* Floats are exact rationals <<n, d>> with d > 0; np.nan is <<0, 0>>.     *)
(* Python strings that the code computes are sequences of one-character    *)
(* strings; fixed captions are one-piece sequences.                        *)
(***************************************************************************)
EXTENDS Integers, Sequences, FiniteSets, TLC

\* ------------------------------------------------------------------ bounds
\* longest input table (number of MetricRecords) of create_styled_excel
MaxRows == 3
\* metric values of the calculate_improvement runs range over -MaxAbs..MaxAbs
MaxAbs == 3

\* ------------------------------------------------------------------ floats
NaN == <<0, 0>>

IsNa(x) == x[2] = 0

Abs(n) == IF n < 0 THEN -n ELSE n

\* the element of a one-element set; {e(x) : x \in {v}} is e with x naming the
\* value of v, computed once
Only(S) == CHOOSE x \in S : TRUE

RECURSIVE GCD(_, _)
GCD(a, b) == IF b = 0 THEN a ELSE Only({GCD(b, r) : r \in {a % b}})

\* the float n/d, d # 0
Rat(n, d) ==
    LET g == GCD(Abs(n), Abs(d))
        s == IF d < 0 THEN -1 ELSE 1
    IN  <<(s * n) \div g, (s * d) \div g>>

Float(n) == <<n, 1>>

FSub(x, y) == IF IsNa(x) \/ IsNa(y) THEN NaN
              ELSE Rat(x[1] * y[2] - y[1] * x[2], x[2] * y[2])

FAdd(x, y) == IF IsNa(x) \/ IsNa(y) THEN NaN
              ELSE Rat(x[1] * y[2] + y[1] * x[2], x[2] * y[2])

FMul(x, y) == IF IsNa(x) \/ IsNa(y) THEN NaN
              ELSE Rat(x[1] * y[1], x[2] * y[2])

FAbs(x) == <<Abs(x[1]), x[2]>>

\* x == 0, x > 0, x < 0; every comparison with nan is False
FIsZero(x) == ~IsNa(x) /\ x[1] = 0
FPos(x) == ~IsNa(x) /\ x[1] > 0
FNeg(x) == ~IsNa(x) /\ x[1] < 0

\* x / y: Python raises ZeroDivisionError on a zero divisor
FDiv(x, y) ==
    IF IsNa(x) \/ IsNa(y) THEN [raised |-> "none", value |-> NaN]
    ELSE IF y[1] = 0 THEN [raised |-> "ZeroDivisionError", value |-> NaN]
    ELSE [raised |-> "none", value |-> Rat(x[1] * y[2], x[2] * y[1])]

\* ------------------------------------------------------------------ metrics
metrics == <<"RMSE", "MAE", "MAPE", "R2", "AIC", "BIC">>

MetricSet == {metrics[i] : i \in 1..Len(metrics)}

\* ------------------------------------------------------------------ calculate_improvement
\* the function without the baseline_val == 0 guard
calculate_improvement_noguard(baseline_val, comparison_val, metric) ==
    IF IsNa(baseline_val) \/ IsNa(comparison_val)
    THEN [raised |-> "none", value |-> NaN]
    ELSE LET q == IF metric = "R2"
                  THEN FDiv(FSub(comparison_val, baseline_val), FAbs(baseline_val))
                  ELSE FDiv(FSub(baseline_val, comparison_val), baseline_val)
         IN  [raised |-> q.raised, value |-> FMul(q.value, Float(100))]

calculate_improvement(baseline_val, comparison_val, metric) ==
    IF IsNa(baseline_val) \/ IsNa(comparison_val)
    THEN [raised |-> "none", value |-> NaN]
    ELSE IF FIsZero(baseline_val)
    THEN [raised |-> "none", value |-> NaN]
    ELSE LET q == IF metric = "R2"
                  THEN FDiv(FSub(comparison_val, baseline_val), FAbs(baseline_val))
                  ELSE FDiv(FSub(baseline_val, comparison_val), baseline_val)
         IN  [raised |-> q.raised, value |-> FMul(q.value, Float(100))]

\* ------------------------------------------------------------------ str
\* s[i:].startswith(pat)
StartsAt(s, pat, i) ==
    /\ i + Len(pat) - 1 <= Len(s)
    /\ \A k \in 1..Len(pat) : s[i + k - 1] = pat[k]

\* Series.str.contains(pat) of one element, for a pattern without regex
\* metacharacters: pat occurs in s
StrContains(s, pat) == \E i \in 1..(Len(s) + 1) : StartsAt(s, pat, i)

\* str.replace(old, '', regex=False): every non-overlapping occurrence of old,
\* left to right, is removed
RECURSIVE RemoveFrom(_, _, _)
RemoveFrom(s, old, i) ==
    IF i > Len(s) THEN <<>>
    ELSE IF Len(old) > 0 /\ StartsAt(s, old, i) THEN RemoveFrom(s, old, i + Len(old))
    ELSE <<s[i]>> \o RemoveFrom(s, old, i + 1)

StrRemove(s, old) == RemoveFrom(s, old, 1)

\* ------------------------------------------------------------------ format
DigitChar(n) == <<"0", "1", "2", "3", "4", "5", "6", "7", "8", "9">>[n + 1]

RECURSIVE Pow10(_)
Pow10(p) == IF p = 0 THEN 1 ELSE 10 * Pow10(p - 1)

RECURSIVE Digits(_)
Digits(n) == IF n < 10 THEN <<DigitChar(n)>>
             ELSE Digits(n \div 10) \o <<DigitChar(n % 10)>>

\* the last width digits of n, zero padded
RECURSIVE PadDigits(_, _)
PadDigits(n, width) ==
    IF width = 0 THEN <<>>
    ELSE PadDigits(n \div 10, width - 1) \o <<DigitChar(n % 10)>>

\* |x| * 10^prec rounded to an integer, ties to even
Scaled(x, prec) ==
    LET n == Abs(x[1]) * Pow10(prec)
        q == n \div x[2]
        r == n % x[2]
    IN  IF 2 * r > x[2] THEN q + 1
        ELSE IF 2 * r = x[2] THEN q + (q % 2)
        ELSE q

\* format(x, ".{prec}f") and, with plus, format(x, "+.{prec}f")
FormatFixed(x, prec, plus) ==
    IF IsNa(x) THEN (IF plus THEN <<"+">> ELSE <<>>) \o <<"n", "a", "n">>
    ELSE LET m == Scaled(x, prec)
             sign == IF x[1] < 0 THEN <<"-">>
                     ELSE IF plus THEN <<"+">> ELSE <<>>
         IN  sign \o Digits(m \div Pow10(prec))
                  \o (IF prec > 0 THEN <<".">> \o PadDigits(m % Pow10(prec), prec)
                      ELSE <<>>)

\* ------------------------------------------------------------------ DataFrame
\* A DataFrame object is [columns |-> column names in order, rows |-> sequence
\* of functions column -> value].  Python names hold references: heap maps
\* object ids to DataFrame objects.
DataFrame(cols, rws) == [columns |-> cols, rows |-> rws]

Range(s) == {s[i] : i \in 1..Len(s)}

Max(S) == CHOOSE x \in S : \A y \in S : y <= x

\* the name bound to the argument itself, where results_df.copy() was meant
DataFrameAlias(heap_, ref) == [heap |-> heap_, ref |-> ref]

\* results_df.copy(): a new object with the same columns and rows
DataFrameCopy(heap_, ref) ==
    LET new == Max(DOMAIN heap_) + 1
    IN  [heap |-> (new :> heap_[ref]) @@ heap_, ref |-> new]

\* df[name] = values, in place on the object ref names
SetColumn(heap_, ref, name, values) ==
    LET df == heap_[ref]
    IN  [heap_ EXCEPT ![ref] =
            DataFrame(IF name \in Range(df.columns) THEN df.columns
                      ELSE Append(df.columns, name),
                      [i \in 1..Len(df.rows) |-> (name :> values[i]) @@ df.rows[i]]
                          \o <<>>)]

\* df[name]: KeyError when the frame has no such column
GetColumn(df, name) ==
    IF name \in Range(df.columns)
    THEN [raised |-> "none", values |-> [i \in 1..Len(df.rows) |-> df.rows[i][name]]]
    ELSE [raised |-> "KeyError", values |-> <<>>]

\* pd.DataFrame(list of dicts): the columns are the keys of the dicts, and a
\* frame built from an empty list has no columns at all
DataFrameFromDicts(data, keys) ==
    DataFrame(IF Len(data) = 0 THEN <<>> ELSE keys, data)

\* Series.unique() keeping the last occurrence of each value instead of the first
RECURSIVE UniqueLast(_)
UniqueLast(s) ==
    IF Len(s) = 0 THEN <<>>
    ELSE LET rest == UniqueLast(Tail(s))
         IN  IF Head(s) \in Range(rest) THEN rest ELSE <<Head(s)>> \o rest

\* Series.unique(): the distinct values in order of first appearance
RECURSIVE Unique(_)
Unique(s) ==
    IF Len(s) = 0 THEN <<>>
    ELSE LET init == Unique(SubSeq(s, 1, Len(s) - 1))
             last == s[Len(s)]
         IN  IF last \in Range(init) THEN init ELSE Append(init, last)

\* values[-1] if len(values) > 0 else np.nan
LastOrNaN(values) == IF Len(values) > 0 THEN values[Len(values)] ELSE NaN

\* values[0] if len(values) > 0 else np.nan
FirstOrNaN(values) == IF Len(values) > 0 THEN values[1] ELSE NaN

RECURSIVE FSum(_)
FSum(s) == IF Len(s) = 0 THEN Float(0) ELSE FAdd(Head(s), FSum(Tail(s)))

\* a mean that counts every missing value as zero
MeanNaNAsZero(values) ==
    IF Len(values) = 0 THEN NaN
    ELSE FDiv(FSum([i \in 1..Len(values) |->
                       IF IsNa(values[i]) THEN Float(0) ELSE values[i]]),
              Float(Len(values))).value

\* Series.mean(): skipna=True, and nan when no value is left
Mean(values) ==
    LET present == SelectSeq(values, LAMBDA v : ~IsNa(v))
    IN  IF Len(present) = 0 THEN NaN
        ELSE FDiv(FSum(present), Float(Len(present))).value

\* ------------------------------------------------------------------ create_comparison_table
NA == <<"N", "/", "A">>

\* the display string with the percentage appended whenever the value is present
ScenarioStrAlwaysPct(val, imp) ==
    IF ~IsNa(val)
    THEN FormatFixed(val, 3, FALSE) \o <<" ", "(">> \o FormatFixed(imp, 1, TRUE)
                                    \o <<"%", ")">>
    ELSE NA

\* exog_str / eemd_str
ScenarioStr(val, imp) ==
    IF ~IsNa(val)
    THEN IF ~IsNa(imp)
         THEN FormatFixed(val, 3, FALSE) \o <<" ", "(">> \o FormatFixed(imp, 1, TRUE)
                                         \o <<"%", ")">>
         ELSE FormatFixed(val, 3, FALSE)
    ELSE NA

BaselineStr(val) == IF ~IsNa(val) THEN FormatFixed(val, 3, FALSE) ELSE NA

ComparisonColumns == <<"Model", "Baseline", "Exogenous", "EEMD", "exog_imp", "eemd_imp">>

\* df[df['ModelName'] == model][metric].values
MetricValues(rws, model, metric) ==
    LET hit == SelectSeq(rws, LAMBDA r : r.ModelName = model)
    IN  [i \in 1..Len(hit) |-> hit[i][metric]]

\* lines 77-100 of one iteration, the three values at hand
RowOfValues(model, baseline_val, exog_val, eemd_val, metric) ==
    Only({[Model |-> model,
           Baseline |-> BaselineStr(baseline_val),
           Exogenous |-> ScenarioStr(exog_val, imp[1]),
           EEMD |-> ScenarioStr(eemd_val, imp[2]),
           exog_imp |-> imp[1],
           eemd_imp |-> imp[2]]
          : imp \in {<<calculate_improvement(baseline_val, exog_val, metric).value,
                       calculate_improvement(baseline_val, eemd_val, metric).value>>}})

\* one iteration of the loop over model_names
ComparisonRow(model, baseline_df, exog_df, eemd_df, metric) ==
    Only({RowOfValues(model, val[1], val[2], val[3], metric)
          : val \in {<<FirstOrNaN(MetricValues(baseline_df, model, metric)),
                       FirstOrNaN(MetricValues(exog_df, model, metric)),
                       FirstOrNaN(MetricValues(eemd_df, model, metric))>>}})

\* f'-{label}'
Dash(label) == <<"-">> \o label

\* results_df['ModelName'] = results_df[source].str.replace(f'-{label}', '')
\* on the object loc names
StripLabel(heap_, loc, source, label) ==
    SetColumn(heap_, loc, "ModelName",
              [i \in 1..Len(heap_[loc].rows) |->
                  StrRemove(heap_[loc].rows[i][source], Dash(label))])

\* lines 57-60: the three partitions of the rows
Partitions(rws, baseline_label, exog_label, eemd_label) ==
    [baseline |-> SelectSeq(rws, LAMBDA r : StrContains(r.Model, baseline_label)),
     exog |-> SelectSeq(rws, LAMBDA r : StrContains(r.Model, exog_label)),
     eemd |-> SelectSeq(rws, LAMBDA r : StrContains(r.Model, eemd_label))]

\* lines 62-102: the frame built from the partitions
ComparisonFrame(parts, metric) ==
    Only({DataFrameFromDicts(
              [k \in 1..Len(model_names) |->
                  ComparisonRow(model_names[k], parts.baseline, parts.exog, parts.eemd,
                                metric)] \o <<>>,
              ComparisonColumns)
          : model_names \in
                {Unique([i \in 1..Len(parts.baseline) |-> parts.baseline[i].ModelName])}})

\* The call create_comparison_table(results_df, ...), results_df naming object
\* ref of heap_.  Returns the heap after the call (the callee's locals are
\* gone, so only the caller's objects remain) and the returned frame.
create_comparison_table(heap_, ref, metric, baseline_label, exog_label, eemd_label) ==
    Only({Only({Only({Only({Only({
        [heap |-> [o \in DOMAIN heap_ |-> h3[o]], df |-> ComparisonFrame(parts, metric)]
        : parts \in {Partitions(h3[c.ref].rows, baseline_label, exog_label, eemd_label)}})
        : h3 \in {StripLabel(h2, c.ref, "ModelName", eemd_label)}})
        : h2 \in {StripLabel(h1, c.ref, "ModelName", exog_label)}})
        : h1 \in {StripLabel(c.heap, c.ref, "Model", baseline_label)}})
        : c \in {DataFrameCopy(heap_, ref)}})

\* ------------------------------------------------------------------ openpyxl
\* A workbook is the sequence of its sheets.  A sheet is [title, cells, merged,
\* widths]; cells maps <<row, column>> to a cell.
Cell(value, fill, font, border, alignment) ==
    [value |-> value, fill |-> fill, font |-> font, border |-> border,
     alignment |-> alignment]

Sheet(title, cells, merged, widths) ==
    [title |-> title, cells |-> cells, merged |-> merged, widths |-> widths]

NoCells == [rc \in {} |-> Cell(<<>>, "none", "default", "none", "general")]

NoWidths == [col \in {} |-> 0]

\* Workbook(): one default sheet
NewWorkbook == <<Sheet("Sheet", NoCells, {}, NoWidths)>>

\* wb.remove(wb.active), the active sheet being the first one
RemoveActive(book) == Tail(book)

\* wb.create_sheet that ignores its index and always appends
CreateSheetAtEnd(book, ws, index) == Append(book, ws)

\* wb.create_sheet(title, index): appended when index is None (-1 here), else
\* inserted at the 0-based position index
CreateSheet(book, ws, index) ==
    IF index = -1 THEN Append(book, ws)
    ELSE SubSeq(book, 1, index) \o <<ws>> \o SubSeq(book, index + 1, Len(book))

\* ------------------------------------------------------------------ create_styled_excel
header_fill == "366092"
header_font == "FFFFFF bold"
improvement_good_fill == "C6EFCE"
improvement_bad_fill == "FFC7CE"
border_thin == "thin"

\* colour coding that also counts a zero improvement as good
ImprovementStyleZeroGood(imp) ==
    IF ~IsNa(imp)
    THEN IF ~FNeg(imp) THEN [fill |-> improvement_good_fill, font |-> "006100"]
         ELSE [fill |-> improvement_bad_fill, font |-> "9C0006"]
    ELSE [fill |-> "none", font |-> "default"]

\* "Color code based on improvement"
ImprovementStyle(imp) ==
    IF ~IsNa(imp)
    THEN IF FPos(imp) THEN [fill |-> improvement_good_fill, font |-> "006100"]
         ELSE IF FNeg(imp) THEN [fill |-> improvement_bad_fill, font |-> "9C0006"]
         ELSE [fill |-> "none", font |-> "default"]
    ELSE [fill |-> "none", font |-> "default"]

\* the header captions, Delta standing for the Greek letter of the source
headers == <<"Model", "Baseline", "Exogenous (Delta%)", "EEMD (Delta%)">>

\* title in A1 (merged A1:E1) and the header row 3
TitleAndHeaderCells(metric) ==
    (<<1, 1>> :> Cell(<<metric, " Comparison: Baseline vs Exogenous vs EEMD">>,
                      "none", "size14 bold", "none", "general"))
    @@ [rc \in {3} \X (1..Len(headers)) |->
           Cell(<<headers[rc[2]]>>, header_fill, header_font, border_thin, "center")]

\* the four cells of one data row
DataCell(row_data, col) ==
    CASE col = 1 -> Cell(row_data.Model, "none", "bold", border_thin, "general")
      [] col = 2 -> Cell(row_data.Baseline, "none", "default", border_thin, "center")
      [] col = 3 -> LET st == ImprovementStyle(row_data.exog_imp)
                    IN  Cell(row_data.Exogenous, st.fill, st.font, border_thin, "center")
      [] col = 4 -> LET st == ImprovementStyle(row_data.eemd_imp)
                    IN  Cell(row_data.EEMD, st.fill, st.font, border_thin, "center")

\* the loop over comparison_df.itertuples, rows from 4 on
DataCells(df) ==
    [rc \in (4..(Len(df.rows) + 3)) \X (1..4) |-> DataCell(df.rows[rc[1] - 3], rc[2])]

\* f"{avg:+.2f}%"
AvgPctStr(avg) == FormatFixed(avg, 2, TRUE) \o <<"%">>

AverageLabelCell(summary_row) ==
    <<summary_row, 1>> :> Cell(<<"Average Improvement:">>, "none", "bold", "none", "general")

AverageCells(summary_row, avg_exog, avg_eemd) ==
    (<<summary_row, 2>> :> Cell(<<"Baseline">>, "none", "default", "none", "general"))
    @@ (<<summary_row, 3>> :> Cell(AvgPctStr(avg_exog), "none", "default", "none", "general"))
    @@ (<<summary_row, 4>> :> Cell(AvgPctStr(avg_eemd), "none", "default", "none", "general"))

MetricWidths == ("A" :> 20) @@ ("B" :> 15) @@ ("C" :> 25) @@ ("D" :> 25)

SummaryWidths == ("A" :> 15) @@ ("B" :> 25) @@ ("C" :> 25)

\* lines 142-223 of one iteration, comparison_df at hand: the sheet, complete
\* unless comparison_df['exog_imp'] raises KeyError, which leaves it as written
\* so far
SheetOfTable(df, metric) ==
    Only({IF col[1].raised # "none" \/ col[2].raised # "none"
          THEN [raised |-> "KeyError",
                ws |-> Sheet(metric,
                             AverageLabelCell(Len(df.rows) + 5) @@ DataCells(df)
                                 @@ TitleAndHeaderCells(metric),
                             {"A1:E1"}, NoWidths)]
          ELSE [raised |-> "none",
                ws |-> Sheet(metric,
                             AverageCells(Len(df.rows) + 5, Mean(col[1].values),
                                          Mean(col[2].values))
                                 @@ AverageLabelCell(Len(df.rows) + 5) @@ DataCells(df)
                                 @@ TitleAndHeaderCells(metric),
                             {"A1:E1"}, MetricWidths)]
          : col \in {<<GetColumn(df, "exog_imp"), GetColumn(df, "eemd_imp")>>}})

\* One iteration of "for metric in metrics" that builds a sheet.
MetricSheetBody(heap_, metric, baseline_label, exog_label, eemd_label) ==
    Only({Only({[heap |-> t.heap, df |-> t.df, raised |-> sh.raised, ws |-> sh.ws]
                : sh \in {SheetOfTable(t.df, metric)}})
          : t \in {create_comparison_table(heap_, 1, metric, baseline_label, exog_label,
                                           eemd_label)}})

SummaryColumns == <<"Metric", "Avg Exog Improvement (%)", "Avg EEMD Improvement (%)">>

\* lines 233-241 of one iteration of the second loop, comparison_df at hand
SummaryRow(df, metric) ==
    Only({IF col[1].raised # "none" \/ col[2].raised # "none"
          THEN [raised |-> "KeyError", row |-> <<>>]
          ELSE [raised |-> "none",
                row |-> <<<<metric>>, FormatFixed(Mean(col[1].values), 2, TRUE),
                          FormatFixed(Mean(col[2].values), 2, TRUE)>>]
          : col \in {<<GetColumn(df, "exog_imp"), GetColumn(df, "eemd_imp")>>}})

\* the second "for metric in metrics": metrics[i..6], summary_data so far in acc
RECURSIVE SummaryLoop(_, _, _, _, _, _, _)
SummaryLoop(heap_, i, acc, df0, baseline_label, exog_label, eemd_label) ==
    IF i > Len(metrics)
    THEN [heap |-> heap_, df |-> df0, raised |-> "none", data |-> acc]
    ELSE Only({Only({
             IF sr.raised # "none"
             THEN [heap |-> t.heap, df |-> t.df, raised |-> sr.raised, data |-> acc]
             ELSE SummaryLoop(t.heap, i + 1, Append(acc, sr.row), t.df,
                              baseline_label, exog_label, eemd_label)
             : sr \in {SummaryRow(t.df, metrics[i])}})
             : t \in {create_comparison_table(heap_, 1, metrics[i], baseline_label,
                                              exog_label, eemd_label)}})

\* dataframe_to_rows(summary_df, index=False, header=True) written from row 3
SummaryCells(data) ==
    LET rws == <<[c \in 1..3 |-> <<SummaryColumns[c]>>]>> \o data
    IN  (<<1, 1>> :> Cell(<<"Model Performance Summary">>, "none", "size16 bold",
                          "none", "general"))
        @@ [rc \in (3..(Len(rws) + 2)) \X (1..3) |->
               Cell(rws[rc[1] - 2][rc[2]],
                    IF rc[1] = 3 THEN header_fill ELSE "none",
                    IF rc[1] = 3 THEN header_font ELSE "default",
                    border_thin, "center")]

\* ------------------------------------------------------------------ state
VARIABLES
    pc,             \* where create_styled_excel (or the calculate_improvement run) stands
    heap,           \* object id -> DataFrame; id 1 is the caller's results_df
    input0,         \* the table as the caller passed it (history)
    wb,             \* the openpyxl workbook
    metric_idx,     \* 1-based position of the first loop in metrics
    comparison_df,  \* the frame returned by the latest create_comparison_table
    summary_data,   \* rows of the summary sheet
    exc,            \* the exception that left create_styled_excel, or "none"
    file,           \* what is stored at output_path: <<>> or <<the saved workbook>>
    printed,        \* the confirmation line was printed
    baseline_arg,   \* calculate_improvement run: baseline_val
    comparison_arg, \* calculate_improvement run: comparison_val
    metric_arg,     \* calculate_improvement run: metric
    result          \* calculate_improvement run: what the call returned or raised

vars == <<pc, heap, input0, wb, metric_idx, comparison_df, summary_data, exc, file,
          printed, baseline_arg, comparison_arg, metric_arg, result>>

calc_vars == <<baseline_arg, comparison_arg, metric_arg, result>>

excel_vars == <<heap, input0, wb, metric_idx, comparison_df, summary_data, exc, file,
                printed>>

\* ------------------------------------------------------------------ inputs
BaselineLabel == <<"B">>
ExogLabel == <<"X">>
EemdLabel == <<"E">>

InputColumns == <<"Model", "RMSE", "MAE", "MAPE", "R2", "AIC", "BIC">>

\* one input record; the information criteria carry the negated value
MetricRecord(model, v) ==
    [Model |-> model, RMSE |-> v, MAE |-> v, MAPE |-> v, R2 |-> v,
     AIC |-> FSub(Float(0), v), BIC |-> FSub(Float(0), v)]

\* The records the input tables are made of: model a with a missing, a zero
\* and a non-zero baseline; model b with a non-zero baseline; model a under the
\* exogenous scenario with a missing value, a value below and a value equal to
\* its baseline; model b under the exogenous scenario; model a under the
\* decomposition scenario.
MetricRecords ==
    {MetricRecord(<<"a", "-", "B">>, NaN),
     MetricRecord(<<"a", "-", "B">>, Float(0)),
     MetricRecord(<<"a", "-", "B">>, Float(2)),
     MetricRecord(<<"b", "-", "B">>, Float(1)),
     MetricRecord(<<"a", "-", "X">>, NaN),
     MetricRecord(<<"a", "-", "X">>, Float(1)),
     MetricRecord(<<"a", "-", "X">>, Float(2)),
     MetricRecord(<<"b", "-", "X">>, Float(2)),
     MetricRecord(<<"a", "-", "E">>, Float(1))}

InputTables == UNION {[1..k -> MetricRecords] : k \in 0..MaxRows}

CalcValues == {NaN} \cup {Float(n) : n \in (-MaxAbs)..MaxAbs}

NoResult == [raised |-> "none", value |-> NaN]

EmptyFrame == DataFrame(<<>>, <<>>)

\* ------------------------------------------------------------------ create_styled_excel
Init ==
    /\ pc = "start"
    /\ \E t \in InputTables :
          /\ heap = (1 :> DataFrame(InputColumns, t))
          /\ input0 = DataFrame(InputColumns, t)
    /\ wb = <<>>
    /\ metric_idx = 1
    /\ comparison_df = EmptyFrame
    /\ summary_data = <<>>
    /\ exc = "none"
    /\ file = <<>>
    /\ printed = FALSE
    /\ baseline_arg = NaN
    /\ comparison_arg = NaN
    /\ metric_arg = ""
    /\ result = NoResult

\* wb = Workbook()
OpenWorkbook ==
    /\ pc = "start"
    /\ wb' = NewWorkbook
    /\ pc' = "remove_default"
    /\ UNCHANGED <<heap, input0, metric_idx, comparison_df, summary_data, exc, file,
                   printed, calc_vars>>

\* wb.remove(wb.active)
RemoveDefault ==
    /\ pc = "remove_default"
    /\ wb' = RemoveActive(wb)
    /\ pc' = "metrics"
    /\ UNCHANGED <<heap, input0, metric_idx, comparison_df, summary_data, exc, file,
                   printed, calc_vars>>

\* one iteration of the first loop over metrics
MetricSheet ==
    /\ pc = "metrics"
    /\ metric_idx <= Len(metrics)
    /\ \E r \in {MetricSheetBody(heap, metrics[metric_idx], BaselineLabel, ExogLabel,
                                 EemdLabel)} :
           /\ heap' = r.heap
           /\ comparison_df' = r.df
           /\ wb' = CreateSheet(wb, r.ws, -1)
           /\ exc' = r.raised
           /\ IF r.raised # "none"
              THEN pc' = "raised" /\ metric_idx' = metric_idx
              ELSE /\ metric_idx' = metric_idx + 1
                   /\ pc' = IF metric_idx = Len(metrics) THEN "summary" ELSE "metrics"
    /\ UNCHANGED <<input0, summary_data, file, printed, calc_vars>>

\* the summary sheet: created at index 0, the second loop over metrics, and the
\* cells written from summary_df
SummarySheet ==
    /\ pc = "summary"
    /\ \E r \in {SummaryLoop(heap, 1, <<>>, comparison_df, BaselineLabel, ExogLabel,
                             EemdLabel)} :
           /\ heap' = r.heap
           /\ comparison_df' = r.df
           /\ summary_data' = r.data
           /\ exc' = r.raised
           /\ IF r.raised # "none"
              THEN /\ pc' = "raised"
                   /\ wb' = CreateSheet(wb,
                                Sheet("Summary",
                                      <<1, 1>> :> Cell(<<"Model Performance Summary">>,
                                                       "none", "size16 bold", "none",
                                                       "general"),
                                      {}, NoWidths), 0)
              ELSE /\ pc' = "save"
                   /\ wb' = CreateSheet(wb,
                                Sheet("Summary", SummaryCells(r.data), {}, SummaryWidths),
                                0)
    /\ UNCHANGED <<input0, metric_idx, file, printed, calc_vars>>

\* wb.save(output_path) and the confirmation print
Save ==
    /\ pc = "save"
    /\ file' = <<wb>>
    /\ printed' = TRUE
    /\ pc' = "saved"
    /\ UNCHANGED <<heap, input0, wb, metric_idx, comparison_df, summary_data, exc,
                   calc_vars>>

Next == OpenWorkbook \/ RemoveDefault \/ MetricSheet \/ SummarySheet \/ Save

Spec == Init /\ [][Next]_vars

\* ------------------------------------------------------------------ calculate_improvement runs
InitCalc ==
    /\ pc = "call"
    /\ baseline_arg \in CalcValues
    /\ comparison_arg \in CalcValues
    /\ metric_arg \in MetricSet
    /\ result = NoResult
    /\ heap = (1 :> EmptyFrame)
    /\ input0 = EmptyFrame
    /\ wb = <<>>
    /\ metric_idx = 1
    /\ comparison_df = EmptyFrame
    /\ summary_data = <<>>
    /\ exc = "none"
    /\ file = <<>>
    /\ printed = FALSE

CalculateImprovement ==
    /\ pc = "call"
    /\ result' = calculate_improvement(baseline_arg, comparison_arg, metric_arg)
    /\ pc' = "return"
    /\ UNCHANGED <<baseline_arg, comparison_arg, metric_arg, excel_vars>>

NextCalc == CalculateImprovement

SpecCalc == InitCalc /\ [][NextCalc]_vars

\* ------------------------------------------------------------------ properties
\* What the properties read of a state, stated over the caller's input table
\* and the indices of its records rather than through the table builder.
Min(S) == CHOOSE x \in S : \A y \in S : x <= y

\* a frame returned by create_comparison_table is at hand
HaveTable ==
    \/ pc = "raised"
    \/ pc \in {"metrics", "summary", "save", "saved"} /\ metric_idx > 1

\* the metric comparison_df was built for
TableMetric == IF pc = "raised" THEN metrics[metric_idx] ELSE metrics[metric_idx - 1]

\* the first loop has just completed the sheet of TableMetric
SheetWritten == pc \in {"metrics", "summary"} /\ metric_idx > 1

LatestSheet == wb[metric_idx - 1]

\* the bare model name of input record i
Bare(i) ==
    StrRemove(StrRemove(StrRemove(input0.rows[i].Model, Dash(BaselineLabel)),
                        Dash(ExogLabel)), Dash(EemdLabel))

\* indices of the input records of the partition of label
Partition(label) ==
    {i \in 1..Len(input0.rows) : StrContains(input0.rows[i].Model, label)}

\* indices of the records of a partition that carry the bare name nm
Carriers(label, nm) == {i \in Partition(label) : Bare(i) = nm}

\* the metric value of the first record of the partition carrying nm; nan if none
FirstValue(label, nm, metric) ==
    IF Carriers(label, nm) = {} THEN NaN
    ELSE input0.rows[Min(Carriers(label, nm))][metric]

HasPct(str) == "(" \in Range(str) \/ "%" \in Range(str)

\* str is value_str, a blank, and a signed one-decimal percentage in parentheses
IsValueWithPct(str, value_str) ==
    LET n == Len(value_str)
        k == Len(str)
    IN  /\ k >= n + 8
        /\ SubSeq(str, 1, n) = value_str
        /\ str[n + 1] = " " /\ str[n + 2] = "("
        /\ str[n + 3] \in {"+", "-"}
        /\ \A j \in (n + 4)..(k - 4) : str[j] \in {DigitChar(d) : d \in 0..9}
        /\ str[k - 3] = "." /\ str[k - 2] \in {DigitChar(d) : d \in 0..9}
        /\ str[k - 1] = "%" /\ str[k] = ")"

\* x < y for two present values
FLess(x, y) == ~IsNa(x) /\ ~IsNa(y) /\ x[1] * y[2] < y[1] * x[2]

\* C1: for present b # 0 and present c, calculate_improvement(b, c, metric) > 0
\* iff c < b for RMSE, MAE, MAPE, AIC, BIC, and iff c > b for R2.
C1_PositiveIffBetter ==
    (/\ pc = "return"
     /\ ~IsNa(baseline_arg) /\ ~FIsZero(baseline_arg) /\ ~IsNa(comparison_arg))
    => (FPos(result.value)
        <=> IF metric_arg = "R2" THEN FLess(baseline_arg, comparison_arg)
            ELSE FLess(comparison_arg, baseline_arg))

\* C2: calculate_improvement returns nan exactly when b is missing, c is
\* missing or b == 0, a number in every other case, and never raises
\* ZeroDivisionError.
C2_UndefinedIffMissingOrZero ==
    pc = "return"
    => /\ result.raised = "none"
       /\ IsNa(result.value)
          <=> (IsNa(baseline_arg) \/ IsNa(comparison_arg) \/ baseline_arg = Float(0))

C2_Witness ==
    /\ pc = "return"
    /\ baseline_arg = Float(0)
    /\ ~IsNa(comparison_arg)
    /\ IsNa(result.value)

\* C3: the Model values of the returned table are the distinct bare names of
\* the baseline partition, each once, in order of first appearance in the
\* input; a name carried only by other partitions has no row.
C3_RowsAreBaselineNames ==
    HaveTable
    => LET rws == comparison_df.rows
       IN  /\ {rws[k].Model : k \in 1..Len(rws)} = {Bare(i) : i \in Partition(BaselineLabel)}
           /\ \A k, l \in 1..Len(rws) :
                 k < l => /\ rws[k].Model # rws[l].Model
                          /\ Min(Carriers(BaselineLabel, rws[k].Model))
                                < Min(Carriers(BaselineLabel, rws[l].Model))

C3_Witness ==
    /\ HaveTable
    /\ Len(comparison_df.rows) = 1
    /\ Cardinality(Partition(BaselineLabel)) = 2
    /\ \E i \in Partition(ExogLabel) :
          \A k \in 1..Len(comparison_df.rows) : comparison_df.rows[k].Model # Bare(i)

\* C4: each Exogenous and EEMD string is "N/A" iff the scenario value is
\* missing, the 3-decimal value alone iff the value is present and the
\* improvement undefined (baseline missing or zero), and the value followed by
\* a signed one-decimal percentage in parentheses iff both are defined; the
\* Baseline string is "N/A" iff the baseline value is missing.
C4_DisplayCases ==
    HaveTable
    => \A k \in 1..Len(comparison_df.rows) :
          LET row == comparison_df.rows[k]
              b == FirstValue(BaselineLabel, row.Model, TableMetric)
              Cases(str, imp, v) ==
                  /\ (str = NA) <=> IsNa(v)
                  /\ IsNa(imp) <=> (IsNa(v) \/ IsNa(b) \/ b = Float(0))
                  /\ (str = FormatFixed(v, 3, FALSE) /\ ~HasPct(str))
                        <=> (~IsNa(v) /\ IsNa(imp))
                  /\ IsValueWithPct(str, FormatFixed(v, 3, FALSE))
                        <=> (~IsNa(v) /\ ~IsNa(imp))
                  /\ (~IsNa(v) /\ ~IsNa(imp))
                        => str = FormatFixed(v, 3, FALSE) \o <<" ", "(">>
                                    \o FormatFixed(imp, 1, TRUE) \o <<"%", ")">>
          IN  /\ Cases(row.Exogenous, row.exog_imp,
                       FirstValue(ExogLabel, row.Model, TableMetric))
              /\ Cases(row.EEMD, row.eemd_imp,
                       FirstValue(EemdLabel, row.Model, TableMetric))
              /\ (row.Baseline = NA) <=> IsNa(b)

C4_Witness ==
    /\ HaveTable
    /\ \E k \in 1..Len(comparison_df.rows) :
          LET row == comparison_df.rows[k]
          IN  /\ row.Baseline = <<"0", ".", "0", "0", "0">>
              /\ row.Exogenous = <<"1", ".", "0", "0", "0">>
              /\ row.EEMD = NA

\* C5: in a per-metric sheet the Exogenous (column 3) and EEMD (column 4) cell
\* of every data row has the good style iff its own improvement is > 0, the bad
\* style iff it is < 0, and no fill iff it is undefined or zero.
C5_StyleFollowsOwnImprovement ==
    SheetWritten
    => \A k \in 1..Len(comparison_df.rows) :
          LET row == comparison_df.rows[k]
              Styled(cell, imp) ==
                  /\ (cell.fill = improvement_good_fill /\ cell.font = "006100")
                        <=> (~IsNa(imp) /\ imp[1] > 0)
                  /\ (cell.fill = improvement_bad_fill /\ cell.font = "9C0006")
                        <=> (~IsNa(imp) /\ imp[1] < 0)
                  /\ (cell.fill = "none" /\ cell.font = "default")
                        <=> (IsNa(imp) \/ imp[1] = 0)
                  /\ cell.fill \in {improvement_good_fill, improvement_bad_fill, "none"}
          IN  /\ Styled(LatestSheet.cells[<<k + 3, 3>>], row.exog_imp)
              /\ Styled(LatestSheet.cells[<<k + 3, 4>>], row.eemd_imp)

C5_Witness ==
    /\ SheetWritten
    /\ \E k \in 1..Len(comparison_df.rows) :
          /\ comparison_df.rows[k].exog_imp = Float(0)
          /\ LatestSheet.cells[<<k + 3, 3>>].fill = "none"
          /\ LatestSheet.cells[<<k + 3, 4>>].fill = improvement_good_fill

\* the sum of column col of comparison_df over the rows of the index set S
RECURSIVE SumOver(_, _)
SumOver(S, col) ==
    IF S = {} THEN Float(0)
    ELSE LET k == Min(S)
         IN  FAdd(comparison_df.rows[k][col], SumOver(S \ {k}, col))

\* the text of an average: the mean of column col over the rows where it is
\* defined, signed with two decimals, and nan when it is defined nowhere
ExpectedAverage(col) ==
    LET D == {k \in 1..Len(comparison_df.rows) : ~IsNa(comparison_df.rows[k][col])}
        total == SumOver(D, col)
    IN  IF D = {} THEN <<"+", "n", "a", "n">>
        ELSE FormatFixed(Rat(total[1], total[2] * Cardinality(D)), 2, TRUE)

ExogImp(k) == comparison_df.rows[k].exog_imp

EemdImp(k) == comparison_df.rows[k].eemd_imp

SheetTitles(book) == [i \in 1..Len(book) |-> book[i].title]

\* C7: when the workbook is saved it holds exactly the seven sheets Summary,
\* RMSE, MAE, MAPE, R2, AIC, BIC in this order, and it stays as saved.
C7_SheetOrderAtSave ==
    /\ pc = "save" => SheetTitles(wb) = <<"Summary">> \o metrics
    /\ pc = "saved" => /\ file = <<wb>>
                       /\ SheetTitles(file[1]) = <<"Summary">> \o metrics

C7_Witness ==
    /\ pc = "saved"
    /\ Len(file) = 1
    /\ Len(file[1]) = 7
    /\ file[1][1].title = "Summary"

\* the display string str shows the value v: "N/A" for a missing one, else its
\* 3-decimal text, alone or followed by a blank
ShowsValue(str, v) ==
    IF IsNa(v) THEN str = NA
    ELSE LET t == FormatFixed(v, 3, FALSE)
         IN  /\ Len(str) >= Len(t)
             /\ SubSeq(str, 1, Len(t)) = t
             /\ Len(str) > Len(t) => str[Len(t) + 1] = " "

\* C8: records of one partition sharing a bare name give a single row, and the
\* row's baseline, exogenous and decomposition values are those of the first
\* such record in input order.
C8_FirstRecordWins ==
    HaveTable
    => LET rws == comparison_df.rows
       IN  /\ \A k, l \in 1..Len(rws) : rws[k].Model = rws[l].Model => k = l
           /\ \A k \in 1..Len(rws) :
                 /\ ShowsValue(rws[k].Baseline,
                               FirstValue(BaselineLabel, rws[k].Model, TableMetric))
                 /\ ShowsValue(rws[k].Exogenous,
                               FirstValue(ExogLabel, rws[k].Model, TableMetric))
                 /\ ShowsValue(rws[k].EEMD,
                               FirstValue(EemdLabel, rws[k].Model, TableMetric))

C8_Witness ==
    /\ HaveTable
    /\ Len(comparison_df.rows) = 1
    /\ \E i, j \in Carriers(ExogLabel, comparison_df.rows[1].Model) :
          /\ i < j
          /\ input0.rows[i][TableMetric] # input0.rows[j][TableMetric]
    /\ \E i \in Carriers(BaselineLabel, comparison_df.rows[1].Model) :
          ~IsNa(input0.rows[i][TableMetric])

\* C9: create_styled_excel never raises, whatever the input table, also when no
\* Model string contains the baseline label.
C9_NeverRaises == pc # "raised" /\ exc = "none"

\* C10: the calls of create_comparison_table leave the caller's table as it
\* was passed (rows, order, columns, values), and the second pass over the
\* metrics reports the averages the first pass wrote.
C10_InputUnchanged ==
    /\ DOMAIN heap = {1}
    /\ heap[1] = input0
    /\ pc \in {"save", "saved"}
       => \A i \in 1..Len(metrics) :
             LET ws == wb[i + 1]
                 summary_row == Max({rc[1] : rc \in DOMAIN ws.cells})
             IN  /\ wb[1].cells[<<i + 3, 1>>].value = <<metrics[i]>>
                 /\ wb[1].cells[<<i + 3, 2>>].value \o <<"%">>
                       = ws.cells[<<summary_row, 3>>].value
                 /\ wb[1].cells[<<i + 3, 3>>].value \o <<"%">>
                       = ws.cells[<<summary_row, 4>>].value

C10_Witness ==
    /\ pc = "saved"
    /\ Len(input0.rows) = MaxRows
    /\ heap[1] = input0
    /\ Len(summary_data) = 6

====
